---------------------------- MODULE Spec2Model ----------------------------
(* The HTTP API handler of commands/http/handler.go: one request served   *)
(* by Handler.ServeHTTP, through the CORS evaluator, the internal handler, *)
(* sendResponse's header assembly and writeResponse's hand-written        *)
(* chunked framing on the hijacked connection.                            *)
(*                                                                        *)
(* Text (header names, wire bytes, error messages) is a TLA+ string, one  *)
(* character per byte.  An error value is a record [kind, msg] with kind  *)
(* "nil", "eof" (io.EOF), "read" (an error of the body source), "write"   *)
(* (an error of the connection) or "hijack".                              *)
EXTENDS Integers, Sequences, FiniteSets, TLC

(* ------------------------------ bounds -------------------------------- *)

\* Reads a body source may answer without ending (no end-of-source, no error).
MaxReads == 3

\* Capacity in bytes of the bufio.Writer the hijack hands out.
WriterSize == 32

\* Reads the body source of a request served through the whole handler may
\* answer without ending.
ServeReads == 0

\* Reads the body source of each of two requests served at once may answer
\* without ending.
PairReads == 1

(* --------------------------- program constants ------------------------ *)

BufSize == 32768

StreamErrHeader == "X-Stream-Error"
streamHeader == "X-Stream-Output"
channelHeader == "X-Chunked-Output"
contentTypeHeader == "Content-Type"
contentLengthHeader == "Content-Length"
transferEncodingHeader == "Transfer-Encoding"
applicationJson == "application/json"

ErrNotFound == [kind |-> "parse", msg |-> "404 page not found"]

StatusOK == 200
StatusBadRequest == 400
StatusNotFound == 404
StatusInternalServerError == 500

CR == "\r"
LF == "\n"
CRLF == "\r\n"

NilErr == [kind |-> "nil", msg |-> ""]
EOF == [kind |-> "eof", msg |-> "EOF"]

(* ------------------------------ text ---------------------------------- *)

Digit(d) == SubSeq("0123456789abcdef", d + 1, d + 1)

\* fmt.Sprintf("%x", n)
RECURSIVE Hex(_)
Hex(n) == IF n < 16 THEN Digit(n) ELSE Hex(n \div 16) \o Digit(n % 16)

\* fmt.Sprintf("%d", n), strconv.FormatUint(n, 10)
RECURSIVE Dec(_)
Dec(n) == IF n < 10 THEN Digit(n) ELSE Dec(n \div 10) \o Digit(n % 10)

\* http.StatusText
StatusText(code) ==
    CASE code = 200 -> "OK"
      [] code = 400 -> "Bad Request"
      [] code = 404 -> "Not Found"
      [] code = 500 -> "Internal Server Error"
      [] OTHER -> ""

\* strings.Split(s, sep)[0] for a one-byte separator
RECURSIVE SplitFirst(_, _)
SplitFirst(s, sep) ==
    IF s = "" THEN ""
    ELSE IF Head(s) = sep THEN ""
    ELSE Head(s) \o SplitFirst(Tail(s), sep)

sanitizedErrStrFirstOnly(err) == SplitFirst(err.msg, LF)

sanitizedErrStr(err) == SplitFirst(SplitFirst(err.msg, LF), CR)

(* ----------------------------- headers -------------------------------- *)

\* An http.Header: a function from the keys present to their value lists.
NoHeaders == [k \in {} |-> << >>]

\* Every header name of the model in the byte order Header.Write sorts by.
HeaderOrder ==
    << "Access-Control-Allow-Credentials", "Access-Control-Allow-Methods",
       "Access-Control-Allow-Origin", "Content-Length", "Content-Type",
       "Transfer-Encoding", "Vary", "X-Chunked-Output", "X-Stream-Output",
       "access-control-allow-origin", "content-type" >>

\* textproto.CanonicalMIMEHeaderKey on the names of the model
CanonicalKey(k) == IF k = "content-type" THEN "Content-Type" ELSE k

\* http.Header.Set
HSet(h, k, v) ==
    [x \in DOMAIN h \cup {CanonicalKey(k)} |->
        IF x = CanonicalKey(k) THEN <<v>> ELSE h[x]]

RECURSIVE ValueLines(_, _)
ValueLines(k, vs) ==
    IF vs = << >> THEN ""
    ELSE k \o ": " \o Head(vs) \o CRLF \o ValueLines(k, Tail(vs))

\* http.Header.Write: one "key: value\r\n" line per value, keys sorted
RECURSIVE HeaderLinesFrom(_, _)
HeaderLinesFrom(h, i) ==
    IF i > Len(HeaderOrder) THEN ""
    ELSE (IF HeaderOrder[i] \in DOMAIN h
          THEN ValueLines(HeaderOrder[i], h[HeaderOrder[i]]) ELSE "")
         \o HeaderLinesFrom(h, i + 1)

HeaderWrite(h) == HeaderLinesFrom(h, 1)

skipAPIHeader(h) ==
    h \in {"Access-Control-Allow-Origin", "Access-Control-Allow-Methods",
           "Access-Control-Allow-Credentials"}

mimeTypes == [json |-> "application/json", xml |-> "application/xml",
              text |-> "text/plain"]

\* mimeTypes[enc]: a missing key of a Go map reads as the empty string
MimeOf(enc) == IF enc \in DOMAIN mimeTypes THEN mimeTypes[enc] ELSE ""


(* ------------------------- the environment ---------------------------- *)

Methods == {"GET", "HEAD", "OPTIONS"}

\* The operator configurations handed to NewHandler: none (nil), and three
\* with extra headers, the last under names that are not in canonical form;
\* an empty list of CORS methods or origins is a nil one.
ConfigInputs ==
    { [nil |-> TRUE, AllowedMethods |-> << >>, AllowedOrigins |-> << >>,
       Headers |-> NoHeaders],
      [nil |-> FALSE, AllowedMethods |-> << >>, AllowedOrigins |-> << >>,
       Headers |-> [k \in {"Access-Control-Allow-Origin",
                           "Access-Control-Allow-Methods",
                           "Access-Control-Allow-Credentials", "Vary"} |->
                      CASE k = "Access-Control-Allow-Origin" -> <<"*">>
                        [] k = "Access-Control-Allow-Methods" -> <<"DELETE">>
                        [] k = "Access-Control-Allow-Credentials" -> <<"true">>
                        [] OTHER -> <<"Accept-Encoding">>]],
      [nil |-> FALSE, AllowedMethods |-> <<"GET">>, AllowedOrigins |-> <<"*">>,
       Headers |-> [k \in {"Content-Type"} |-> <<"text/html">>]],
      [nil |-> FALSE, AllowedMethods |-> << >>, AllowedOrigins |-> << >>,
       Headers |-> [k \in {"access-control-allow-origin", "content-type"} |->
                      IF k = "content-type" THEN <<"text/html">>
                      ELSE <<"*">>]] }

\* What the CORS evaluator writes before it delegates: nothing (a request
\* without an Origin it answers), or the allowed origin and Vary.
CorsHeaderSets ==
    { NoHeaders,
      [k \in {"Access-Control-Allow-Origin", "Vary"} |->
          IF k = "Vary" THEN <<"Origin">> ELSE <<"http://localhost">>] }

\* The encoding option of a parsed request: unset, of the wrong type, or set.
Encodings == {"json", "xml", "text", "protobuf"}
EncOptions ==
    {[found |-> FALSE, bad |-> FALSE, val |-> ""],
     [found |-> FALSE, bad |-> TRUE, val |-> ""]}
    \cup {[found |-> TRUE, bad |-> FALSE, val |-> e] : e \in Encodings}

\* A Result of the invocation engine.
ResErrors == {"none", "client", "normal"}
Outputs == {"reader", "chan", "recvchan", "value"}
Lengths == {0, 12}
Results ==
    [err : ResErrors, output : Outputs, length : Lengths]

\* The byte counts a Read of the body source answers.
ReadSizes == {0, 5, 10, 17}

\* The errors a Read of the body source fails with.
ReadErrors ==
    { [kind |-> "read", msg |-> "boom"],
      [kind |-> "read", msg |-> "boom\r\ndata"],
      [kind |-> "read", msg |-> "no\nspace\rleft"] }

WriteError == [kind |-> "write", msg |-> "write tcp: broken pipe"]

\* The bytes of the body source, in order; a Read answers the next ones.
\* They hold what a chunked message is framed with.
RECURSIVE SourceBlocks(_)
SourceBlocks(k) ==
    IF k = 0 THEN ""
    ELSE SourceBlocks(k - 1) \o Dec(k) \o "\r\n0\r\n\r\nX-Stream-Error: " \o Dec(k)

Source == SourceBlocks(MaxReads + 1)

BodyBytes(off, n) == SubSeq(Source, off + 1, off + n)

(* ------------------------------ state --------------------------------- *)

VARIABLES
    pc,          \* the position of the request's worker
    method,      \* r.Method
    cfg,         \* the handler's ServerConfig
    hdr,         \* w.Header(), the outgoing header collection
    respStatus,  \* the status written through the ResponseWriter (0: none)
    respBody,    \* the bytes handed to the ResponseWriter's Write
    opts,        \* the parsed request's options
    res,         \* the Result of the call
    mime,        \* sendResponse's mime
    status,      \* sendResponse's status
    src,         \* the body source: [left, off]
    conn,        \* the hijacked connection: "none", "open", "closed"
    bw,          \* the hijacked bufio.Writer and the socket behind it
    rd,          \* writeChunks' n, buf[0:n] and err of the last Read
    streamErr,   \* writeResponse's streamErr
    ret,         \* what writeResponse returned
    trace,       \* the calls made on the hijacked connection, in order
    pair         \* two requests served at once by the same handler: the
                 \* slices on the heap, each request's own state, and the
                 \* connections

\* the state of one request
handlerVars == << pc, method, cfg, hdr, respStatus, respBody, opts, res, mime,
                  status, src, conn, bw, rd, streamErr, ret, trace >>

vars == << pair, pc, method, cfg, hdr, respStatus, respBody, opts, res, mime,
           status, src, conn, bw, rd, streamErr, ret, trace >>

\* no second request
NoPair == [heap |-> << >>, req |-> << >>, conns |-> << >>]

NoOpts == [enc |-> [found |-> FALSE, bad |-> FALSE, val |-> ""],
           streamChans |-> FALSE]
NoRes == [err |-> "none", output |-> "value", length |-> 0]
NoRead == [n |-> 0, data |-> "", err |-> NilErr]
NewWriter == [buf |-> "", err |-> FALSE, wire |-> ""]

\* NewHandler: a nil config is an empty one; the CORS options default to
\* GET, POST, PUT and the localhost origins.
localhostOrigins ==
    << "http://127.0.0.1", "https://127.0.0.1",
       "http://localhost", "https://localhost" >>

NewHandler(c) ==
    [ Headers |-> IF c.nil THEN NoHeaders ELSE c.Headers,
      AllowedMethods |-> IF c.nil \/ c.AllowedMethods = << >>
                         THEN <<"GET", "POST", "PUT">> ELSE c.AllowedMethods,
      AllowedOrigins |-> IF c.nil \/ c.AllowedOrigins = << >>
                         THEN localhostOrigins ELSE c.AllowedOrigins ]

Init ==
    /\ pc = "cors"
    /\ method \in Methods
    /\ cfg \in {NewHandler(c) : c \in ConfigInputs}
    /\ hdr = NoHeaders
    /\ respStatus = 0
    /\ respBody = ""
    /\ opts = NoOpts
    /\ res = NoRes
    /\ mime = ""
    /\ status = 0
    /\ src = [left |-> 0, off |-> 0]
    /\ conn = "none"
    /\ bw = NewWriter
    /\ rd = NoRead
    /\ streamErr = NilErr
    /\ ret = NilErr
    /\ trace = << >>
    /\ pair = NoPair


(* ------------------- the ResponseWriter's normal path ----------------- *)

\* http.Error: a plain-text Content-Type, the status, the message and a
\* line feed.
HttpError(msg, code) ==
    /\ hdr' = HSet(hdr, contentTypeHeader, "text/plain; charset=utf-8")
    /\ respStatus' = code
    /\ respBody' = respBody \o msg \o LF

(* --------------------------- Handler.ServeHTTP ------------------------ *)

\* The CORS evaluator runs first: it answers a preflight itself, or writes
\* its headers and delegates to the internal handler.
CorsServe ==
    /\ pc = "cors"
    /\ \E h \in CorsHeaderSets :
         /\ hdr' = h
         /\ IF method = "OPTIONS"
            THEN /\ respStatus' = StatusOK
                 /\ pc' = "done"
            ELSE /\ respStatus' = respStatus
                 /\ pc' = "parse"
    /\ UNCHANGED << pair, method, cfg, respBody, opts, res, mime, status, src,
                    conn, bw, rd, streamErr, ret, trace >>

(* ----------------------- internalHandler.ServeHTTP -------------------- *)

ParseErrors == {ErrNotFound, [kind |-> "parse", msg |-> "invalid argument"]}

\* req, err := Parse(r, i.root)
ServeParse ==
    /\ pc = "parse"
    /\ \/ \E err \in ParseErrors :
            /\ respStatus' = IF err = ErrNotFound THEN StatusNotFound
                             ELSE StatusBadRequest
            /\ respBody' = respBody \o err.msg
            /\ opts' = opts
            /\ pc' = "done"
       \/ \E e \in EncOptions, sc \in BOOLEAN :
            /\ opts' = [enc |-> e, streamChans |-> sc]
            /\ pc' = "getnode"
            /\ UNCHANGED << respStatus, respBody >>
    /\ UNCHANGED << pair, method, cfg, hdr, res, mime, status, src, conn, bw, rd,
                    streamErr, ret, trace >>

\* node, err := i.ctx.GetNode()
ServeGetNode ==
    /\ pc = "getnode"
    /\ \/ /\ HttpError("cmds/http: couldn't GetNode(): " \o "node offline",
                       StatusInternalServerError)
          /\ pc' = "done"
       \/ /\ pc' = "setctx"
          /\ UNCHANGED << hdr, respStatus, respBody >>
    /\ UNCHANGED << pair, method, cfg, opts, res, mime, status, src, conn, bw, rd,
                    streamErr, ret, trace >>

\* req.SetInvocContext(i.ctx); err = req.SetRootContext(node.Context())
ServeSetContext ==
    /\ pc = "setctx"
    /\ \/ /\ HttpError("context already set", StatusInternalServerError)
          /\ pc' = "done"
       \/ /\ pc' = "call"
          /\ UNCHANGED << hdr, respStatus, respBody >>
    /\ UNCHANGED << pair, method, cfg, opts, res, mime, status, src, conn, bw, rd,
                    streamErr, ret, trace >>

\* The operator's extra headers, the three CORS names skipped.
ApplyUserHeadersNoSkip(h, extra) ==
    [k \in DOMAIN h \cup DOMAIN extra |->
        IF k \in DOMAIN extra THEN extra[k] ELSE h[k]]

ApplyUserHeaders(h, extra) ==
    [k \in DOMAIN h \cup {x \in DOMAIN extra : ~skipAPIHeader(x)} |->
        IF k \in DOMAIN extra /\ ~skipAPIHeader(k) THEN extra[k] ELSE h[k]]

\* res := i.root.Call(req), then the user's headers are set first
ServeCall ==
    /\ pc = "call"
    /\ \E r \in Results : res' = r
    /\ hdr' = ApplyUserHeaders(hdr, cfg.Headers)
    /\ pc' = "mime"
    /\ UNCHANGED << pair, method, cfg, respStatus, respBody, opts, mime, status,
                    src, conn, bw, rd, streamErr, ret, trace >>


(* ------------------------------ sendResponse -------------------------- *)

\* guessMimeType: the mime of the encoding option, or an error
guessMimeType(o) ==
    IF o.enc.bad
    THEN [mime |-> "", err |-> [kind |-> "option", msg |-> "option is not a string"]]
    ELSE IF ~o.enc.found
    THEN [mime |-> "", err |-> [kind |-> "option", msg |-> "no encoding option set"]]
    ELSE [mime |-> MimeOf(o.enc.val), err |-> NilErr]

\* status of a Result: 200, or 400 for a client error and 500 for another
StatusOfAlwaysOK(r) == StatusOK

StatusOf(r) ==
    IF r.err = "none" THEN StatusOK
    ELSE IF r.err = "client" THEN StatusBadRequest
    ELSE StatusInternalServerError

\* mime, err := guessMimeType(res), then the status
SendMime ==
    /\ pc = "mime"
    /\ LET g == guessMimeType(opts) IN
         IF g.err # NilErr
         THEN /\ HttpError(g.err.msg, StatusInternalServerError)
              /\ pc' = "done"
              /\ UNCHANGED << mime, status >>
         ELSE /\ mime' = g.mime
              /\ status' = StatusOf(res)
              /\ pc' = "reader"
              /\ UNCHANGED << hdr, respStatus, respBody >>
    /\ UNCHANGED << pair, method, cfg, opts, res, src, conn, bw, rd, streamErr,
                    ret, trace >>

\* out, err := res.Reader()
SendReaderFallsThrough ==
    /\ pc = "reader"
    /\ \/ HttpError("marshal failed", StatusInternalServerError)
       \/ UNCHANGED << hdr, respStatus, respBody >>
    /\ src' = [left |-> ServeReads, off |-> 0]
    /\ pc' = "headers"
    /\ UNCHANGED << pair, method, cfg, opts, res, mime, status, conn, bw, rd,
                    streamErr, ret, trace >>

SendReader ==
    /\ pc = "reader"
    /\ \/ /\ HttpError("marshal failed", StatusInternalServerError)
          /\ pc' = "done"
          /\ src' = src
       \/ /\ src' = [left |-> ServeReads, off |-> 0]
          /\ pc' = "headers"
          /\ UNCHANGED << hdr, respStatus, respBody >>
    /\ UNCHANGED << pair, method, cfg, opts, res, mime, status, conn, bw, rd,
                    streamErr, ret, trace >>

IsReader(r) == r.output = "reader"

\* the output is a chan interface{} or a <-chan interface{}
IsChan(r) == r.output = "chan" \/ r.output = "recvchan"

\* mime after the output's type and the stream-channels option are looked at
FinalMimeKeepForReader(r, m, streamChans) ==
    IF IsChan(r) /\ streamChans THEN applicationJson ELSE m

FinalMimeFromEncoding(r, m, streamChans) == IF IsReader(r) THEN "" ELSE m

FinalMime(r, m, streamChans) ==
    IF IsChan(r) /\ streamChans THEN applicationJson
    ELSE IF IsReader(r) THEN "" ELSE m

\* the headers sendResponse sets on w.Header(), in its order
AssembleHeaders(h, r, m, streamChans) ==
    LET h1 == IF r.length > 0
              THEN HSet(h, contentLengthHeader, Dec(r.length)) ELSE h
        h2 == IF IsReader(r) THEN HSet(h1, streamHeader, "1") ELSE h1
        h3 == IF IsChan(r) THEN HSet(h2, channelHeader, "1") ELSE h2
        fm == FinalMime(r, m, streamChans)
        h4 == IF fm # "" THEN HSet(h3, contentTypeHeader, fm) ELSE h3
    IN  HSet(h4, transferEncodingHeader, "chunked")

SendHeaders ==
    /\ pc = "headers"
    /\ mime' = FinalMime(res, mime, opts.streamChans)
    /\ hdr' = AssembleHeaders(hdr, res, mime, opts.streamChans)
    /\ pc' = "method"
    /\ UNCHANGED << pair, method, cfg, respStatus, respBody, opts, res, status,
                    src, conn, bw, rd, streamErr, ret, trace >>

\* if r.Method == "HEAD" { return }  -- after all the headers
SendMethodNoCheck ==
    /\ pc = "method"
    /\ pc' = "hijack"
    /\ UNCHANGED << pair, method, cfg, hdr, respStatus, respBody, opts, res, mime,
                    status, src, conn, bw, rd, streamErr, ret, trace >>

SendMethod ==
    /\ pc = "method"
    /\ pc' = IF method = "HEAD" THEN "done" ELSE "hijack"
    /\ UNCHANGED << pair, method, cfg, hdr, respStatus, respBody, opts, res, mime,
                    status, src, conn, bw, rd, streamErr, ret, trace >>

(* ------------------------ the hijacked bufio.Writer ------------------- *)
(* b.buf are the bytes buffered, b.err that a write to the connection has *)
(* failed (bufio keeps the error: every later call fails and writes       *)
(* nothing), b.wire the bytes the connection took.  up says whether the   *)
(* connection still takes bytes during the call.                          *)

Available(b) == WriterSize - Len(b.buf)

\* bufio.Writer.Flush
BufFlush(b, up) ==
    IF b.err \/ b.buf = "" THEN b
    ELSE IF up THEN [b EXCEPT !.wire = @ \o b.buf, !.buf = ""]
    ELSE [b EXCEPT !.err = TRUE]

\* bufio.Writer.WriteString: fill the buffer and flush while s does not fit
RECURSIVE BufWriteString(_, _, _)
BufWriteString(b, s, up) ==
    IF Len(s) > Available(b) /\ ~b.err
    THEN LET n == Available(b) IN
         BufWriteString(BufFlush([b EXCEPT !.buf = @ \o SubSeq(s, 1, n)], up),
                        SubSeq(s, n + 1, Len(s)), up)
    ELSE IF b.err THEN b
    ELSE [b EXCEPT !.buf = @ \o s]

\* bufio.Writer.Write: as WriteString, but bytes that do not fit an empty
\* buffer go to the connection directly
RECURSIVE BufWrite(_, _, _)
BufWrite(b, p, up) ==
    IF Len(p) > Available(b) /\ ~b.err
    THEN IF b.buf = ""
         THEN IF up THEN [b EXCEPT !.wire = @ \o p]
              ELSE [b EXCEPT !.err = TRUE]
         ELSE LET n == Available(b) IN
              BufWrite(BufFlush([b EXCEPT !.buf = @ \o SubSeq(p, 1, n)], up),
                       SubSeq(p, n + 1, Len(p)), up)
    ELSE IF b.err THEN b
    ELSE [b EXCEPT !.buf = @ \o p]

\* whether the connection may have gone before a call that reaches it
UpChoices(reaches) == IF reaches THEN BOOLEAN ELSE {TRUE}

Event(op, data, err) == [op |-> op, data |-> data, err |-> err]

\* the error a call on the writer in state b returns
Returned(b) == IF b.err THEN WriteError ELSE NilErr

\* writer.WriteString(s); the error it returns is ignored
WriteString(s) ==
    /\ \E up \in UpChoices(~bw.err /\ Len(s) > Available(bw)) :
         bw' = BufWriteString(bw, s, up)
    /\ trace' = Append(trace, Event("WriteString", s, Returned(bw')))

\* writer.Flush(); the error it returns is ignored
Flush ==
    /\ \E up \in UpChoices(~bw.err /\ bw.buf # "") : bw' = BufFlush(bw, up)
    /\ trace' = Append(trace, Event("Flush", "", Returned(bw')))


(* ------------------------------ writeResponse ------------------------- *)

HijackUnsupported == [kind |-> "hijack", msg |-> "Could not create hijacker"]
HijackFailed == [kind |-> "hijack", msg |-> "http: connection has been hijacked"]

\* hijacker, ok := w.(http.Hijacker); conn, writer, err := hijacker.Hijack();
\* defer conn.Close()
HijackSilent ==
    /\ pc = "hijack"
    /\ \/ /\ ret' = NilErr
          /\ pc' = "done"
          /\ UNCHANGED << conn, trace >>
       \/ /\ conn' = "open"
          /\ trace' = Append(trace, Event("Hijack", "", NilErr))
          /\ pc' = "w_status"
          /\ ret' = ret
    /\ UNCHANGED << pair, method, cfg, hdr, respStatus, respBody, opts, res, mime,
                    status, src, bw, rd, streamErr >>

Hijack ==
    /\ pc = "hijack"
    /\ \/ /\ ret' = HijackUnsupported
          /\ pc' = "done"
          /\ UNCHANGED << conn, trace >>
       \/ /\ ret' = HijackFailed
          /\ pc' = "done"
          /\ UNCHANGED << conn, trace >>
       \/ /\ conn' = "open"
          /\ trace' = Append(trace, Event("Hijack", "", NilErr))
          /\ pc' = "w_status"
          /\ ret' = ret
    /\ UNCHANGED << pair, method, cfg, hdr, respStatus, respBody, opts, res, mime,
                    status, src, bw, rd, streamErr >>

StatusLineNoReason(code) == "HTTP/1.1 " \o Dec(code) \o CRLF

StatusLine(code) ==
    "HTTP/1.1 " \o Dec(code) \o " " \o StatusText(code) \o CRLF

\* write status
WriteStatus ==
    /\ pc = "w_status"
    /\ WriteString(StatusLine(status))
    /\ pc' = "w_headers"
    /\ UNCHANGED << pair, method, cfg, hdr, respStatus, respBody, opts, res, mime,
                    status, src, conn, rd, streamErr, ret >>

\* w.Header().Write(writer)
WriteHeaders ==
    /\ pc = "w_headers"
    /\ \E up \in UpChoices(~bw.err /\ Len(HeaderWrite(hdr)) > Available(bw)) :
         bw' = BufWriteString(bw, HeaderWrite(hdr), up)
    /\ trace' = Append(trace, Event("Header.Write", HeaderWrite(hdr),
                                    Returned(bw')))
    /\ pc' = "w_eoh"
    /\ UNCHANGED << pair, method, cfg, hdr, respStatus, respBody, opts, res, mime,
                    status, src, conn, rd, streamErr, ret >>

\* end of headers
WriteEndOfHeaders ==
    /\ pc = "w_eoh"
    /\ WriteString(CRLF)
    /\ pc' = "read"
    /\ UNCHANGED << pair, method, cfg, hdr, respStatus, respBody, opts, res, mime,
                    status, src, conn, rd, streamErr, ret >>

(* ------------------------------- writeChunks -------------------------- *)

\* What a Read may answer beside its bytes: nil while the source may go on,
\* end-of-source, or an error.
ReadOutcomes(s) ==
    (IF s.left > 0 THEN {NilErr} ELSE {}) \cup {EOF} \cup ReadErrors

\* The end of a loop round: an error other than io.EOF is returned, io.EOF
\* breaks the loop and nil is returned, anything else reads again.
LoopEndZeroEnds(n, e) ==
    IF e # NilErr /\ e # EOF THEN [pc |-> "w_last", streamErr |-> e]
    ELSE IF e = EOF \/ n = 0 THEN [pc |-> "w_last", streamErr |-> NilErr]
    ELSE [pc |-> "read", streamErr |-> NilErr]

LoopEndErrorDropped(n, e) ==
    IF e # NilErr THEN [pc |-> "w_last", streamErr |-> NilErr]
    ELSE [pc |-> "read", streamErr |-> NilErr]

LoopEnd(n, e) ==
    IF e # NilErr /\ e # EOF THEN [pc |-> "w_last", streamErr |-> e]
    ELSE IF e = EOF THEN [pc |-> "w_last", streamErr |-> NilErr]
    ELSE [pc |-> "read", streamErr |-> NilErr]

\* n, err := r.Read(buf)
ChunkReadFramesEmpty ==
    /\ pc = "read"
    /\ \E n \in ReadSizes, e \in ReadOutcomes(src) :
         /\ n <= BufSize
         /\ rd' = [n |-> n, data |-> BodyBytes(src.off, n), err |-> e]
         /\ src' = [left |-> IF e = NilErr THEN src.left - 1 ELSE src.left,
                    off |-> src.off + n]
         /\ trace' = Append(trace, Event("Read", BodyBytes(src.off, n), e))
         /\ pc' = "chunk_len"
         /\ streamErr' = streamErr
    /\ UNCHANGED << pair, method, cfg, hdr, respStatus, respBody, opts, res, mime,
                    status, conn, bw, ret >>

ChunkRead ==
    /\ pc = "read"
    /\ \E n \in ReadSizes, e \in ReadOutcomes(src) :
         /\ n <= BufSize
         /\ rd' = [n |-> n, data |-> BodyBytes(src.off, n), err |-> e]
         /\ src' = [left |-> IF e = NilErr THEN src.left - 1 ELSE src.left,
                    off |-> src.off + n]
         /\ trace' = Append(trace, Event("Read", BodyBytes(src.off, n), e))
         /\ IF n > 0
            THEN /\ pc' = "chunk_len"
                 /\ streamErr' = streamErr
            ELSE /\ pc' = LoopEnd(n, e).pc
                 /\ streamErr' = LoopEnd(n, e).streamErr
    /\ UNCHANGED << pair, method, cfg, hdr, respStatus, respBody, opts, res, mime,
                    status, conn, bw, ret >>

\* length := fmt.Sprintf("%x\r\n", n)
ChunkSizeLineDecimal(n) == Dec(n) \o CRLF

ChunkSizeLine(n) == Hex(n) \o CRLF

\* w.WriteString(length)
ChunkLength ==
    /\ pc = "chunk_len"
    /\ WriteString(ChunkSizeLine(rd.n))
    /\ pc' = "chunk_data"
    /\ UNCHANGED << pair, method, cfg, hdr, respStatus, respBody, opts, res, mime,
                    status, src, conn, rd, streamErr, ret >>

\* if err != nil { return err } after the payload's Write
AfterPayloadWriteIgnored(e) == [pc |-> "chunk_crlf", streamErr |-> NilErr]

AfterPayloadWrite(e) ==
    IF e # NilErr THEN [pc |-> "w_last", streamErr |-> e]
    ELSE [pc |-> "chunk_crlf", streamErr |-> NilErr]

\* _, err := w.Write(buf[0:n])
ChunkData ==
    /\ pc = "chunk_data"
    /\ \E up \in UpChoices(~bw.err /\ Len(rd.data) > Available(bw)) :
         bw' = BufWrite(bw, rd.data, up)
    /\ trace' = Append(trace, Event("Write", rd.data, Returned(bw')))
    /\ pc' = AfterPayloadWrite(Returned(bw')).pc
    /\ streamErr' = AfterPayloadWrite(Returned(bw')).streamErr
    /\ UNCHANGED << pair, method, cfg, hdr, respStatus, respBody, opts, res, mime,
                    status, src, conn, rd, ret >>

\* w.WriteString("\r\n")
ChunkEnd ==
    /\ pc = "chunk_crlf"
    /\ WriteString(CRLF)
    /\ pc' = "chunk_flush"
    /\ UNCHANGED << pair, method, cfg, hdr, respStatus, respBody, opts, res, mime,
                    status, src, conn, rd, streamErr, ret >>

\* w.Flush(), then the end of the loop round
ChunkFlushSkipped ==
    /\ pc = "chunk_flush"
    /\ pc' = LoopEnd(rd.n, rd.err).pc
    /\ streamErr' = LoopEnd(rd.n, rd.err).streamErr
    /\ UNCHANGED << pair, method, cfg, hdr, respStatus, respBody, opts, res, mime,
                    status, src, conn, bw, rd, ret, trace >>

ChunkFlush ==
    /\ pc = "chunk_flush"
    /\ Flush
    /\ pc' = LoopEnd(rd.n, rd.err).pc
    /\ streamErr' = LoopEnd(rd.n, rd.err).streamErr
    /\ UNCHANGED << pair, method, cfg, hdr, respStatus, respBody, opts, res, mime,
                    status, src, conn, rd, ret >>

(* ----------------------- writeResponse, after the body ---------------- *)

\* close body
WriteLastChunk ==
    /\ pc = "w_last"
    /\ WriteString("0" \o CRLF)
    /\ pc' = IF streamErr # NilErr THEN "w_trailer" ELSE "w_end"
    /\ UNCHANGED << pair, method, cfg, hdr, respStatus, respBody, opts, res, mime,
                    status, src, conn, rd, streamErr, ret >>

TrailerLine(err) == StreamErrHeader \o ": " \o sanitizedErrStr(err) \o CRLF

\* if there was a stream error, write out an error trailer
WriteTrailer ==
    /\ pc = "w_trailer"
    /\ WriteString(TrailerLine(streamErr))
    /\ pc' = "w_end"
    /\ UNCHANGED << pair, method, cfg, hdr, respStatus, respBody, opts, res, mime,
                    status, src, conn, rd, streamErr, ret >>

\* close response
WriteEnd ==
    /\ pc = "w_end"
    /\ WriteString(CRLF)
    /\ pc' = "w_flush"
    /\ UNCHANGED << pair, method, cfg, hdr, respStatus, respBody, opts, res, mime,
                    status, src, conn, rd, streamErr, ret >>

WriteFlushErrorReturns ==
    /\ pc = "w_flush"
    /\ Flush
    /\ pc' = IF bw'.err THEN "done" ELSE "close"
    /\ ret' = IF bw'.err THEN WriteError ELSE ret
    /\ UNCHANGED << pair, method, cfg, hdr, respStatus, respBody, opts, res, mime,
                    status, src, conn, rd, streamErr >>

WriteFlush ==
    /\ pc = "w_flush"
    /\ Flush
    /\ pc' = "close"
    /\ UNCHANGED << pair, method, cfg, hdr, respStatus, respBody, opts, res, mime,
                    status, src, conn, rd, streamErr, ret >>

\* return streamErr, and the deferred conn.Close()
WriteReturnNoClose ==
    /\ pc = "close"
    /\ ret' = streamErr
    /\ pc' = "done"
    /\ UNCHANGED << pair, method, cfg, hdr, respStatus, respBody, opts, res, mime,
                    status, src, conn, bw, rd, streamErr, trace >>

WriteReturn ==
    /\ pc = "close"
    /\ conn' = "closed"
    /\ trace' = Append(trace, Event("Close", "", NilErr))
    /\ ret' = streamErr
    /\ pc' = "done"
    /\ UNCHANGED << pair, method, cfg, hdr, respStatus, respBody, opts, res, mime,
                    status, src, bw, rd, streamErr >>

(* ---------------------- two requests served at once ------------------- *)
(* The handler is one value shared by the workers net/http starts, one   *)
(* per connection: Handler.ServeHTTP runs for two requests at once, each *)
(* with its own ResponseWriter, Request, Result and body source, and     *)
(* both with the same ServerConfig.  A header's value list is a Go       *)
(* slice: pair.heap holds the slices by identity (the owner that made    *)
(* the slice, and the header name), a header collection holds the        *)
(* identity of the slice under each key, pair.conns holds what each      *)
(* connection took and who used it.  A step is one stretch of the        *)
(* handler between two places where it touches a slice or a connection.  *)
(* The failures before the call and the failures of a connection are     *)
(* those of one request alone, as in Spec, and are left out here.        *)

Workers == {"r1", "r2"}

ConcMethods == {"GET", "HEAD"}
ConcResults == [err : {"none"}, output : {"reader", "chan", "value"},
                length : {0}]
ConcEncodings == {"json", "text"}
ConcSizes == {10}
ConcReadError == [kind |-> "read", msg |-> "boom\r\ndata"]

NewRequest ==
    [pc |-> "cors", method |-> "GET", cors |-> NoHeaders, res |-> NoRes,
     enc |-> "json", sc |-> FALSE, hdr |-> << >>, failed |-> FALSE,
     conn |-> "none", reads |-> << >>, left |-> PairReads, off |-> 0]

NewConn == [state |-> "none", wire |-> "", users |-> {}]

\* the slices of cfg.Headers
ConfigHeap(c) ==
    [id \in {<<"cfg", k>> : k \in DOMAIN c.Headers} |-> c.Headers[id[2]]]

HeapPut(heap, id, v) ==
    [x \in DOMAIN heap \cup {id} |-> IF x = id THEN v ELSE heap[x]]

\* h[k] = slice: the key holds that very slice
Assign(h, k, id) == [x \in DOMAIN h \cup {k} |-> IF x = k THEN id ELSE h[x]]

\* http.Header.Set by worker w on s = [heap, h]: h[key] = []string{value},
\* a slice of its own
ConcSetInPlace(s, w, k, v) ==
    IF k \in DOMAIN s.h
    THEN [heap |-> HeapPut(s.heap, s.h[k], <<v>>), h |-> s.h]
    ELSE [heap |-> HeapPut(s.heap, <<w, k>>, <<v>>),
          h |-> Assign(s.h, k, <<w, k>>)]

ConcSet(s, w, k, v) ==
    [heap |-> HeapPut(s.heap, <<w, CanonicalKey(k)>>, <<v>>),
     h |-> Assign(s.h, CanonicalKey(k), <<w, CanonicalKey(k)>>)]

\* the CORS evaluator writes its headers, each a slice of the request's own
RECURSIVE ConcEvaluate(_, _, _, _)
ConcEvaluate(s, w, c, i) ==
    IF i > Len(HeaderOrder) THEN s
    ELSE ConcEvaluate(
            IF HeaderOrder[i] \in DOMAIN c
            THEN [heap |-> HeapPut(s.heap, <<w, HeaderOrder[i]>>, c[HeaderOrder[i]]),
                  h |-> Assign(s.h, HeaderOrder[i], <<w, HeaderOrder[i]>>)]
            ELSE s,
            w, c, i + 1)

\* for k, v := range i.cfg.Headers { if !skipAPIHeader(k) { w.Header()[k] = v } }
ConcApplyUserHeaders(h, extra) ==
    [k \in DOMAIN h \cup {x \in DOMAIN extra : ~skipAPIHeader(x)} |->
        IF k \in DOMAIN extra /\ ~skipAPIHeader(k) THEN <<"cfg", k>> ELSE h[k]]

\* the headers sendResponse sets, in its order
ConcAssemble(s, w, r, m, streamChans) ==
    LET s1 == IF r.length > 0
              THEN ConcSet(s, w, contentLengthHeader, Dec(r.length)) ELSE s
        s2 == IF IsReader(r) THEN ConcSet(s1, w, streamHeader, "1") ELSE s1
        s3 == IF IsChan(r) THEN ConcSet(s2, w, channelHeader, "1") ELSE s2
        fm == FinalMime(r, m, streamChans)
        s4 == IF fm # "" THEN ConcSet(s3, w, contentTypeHeader, fm) ELSE s3
    IN  ConcSet(s4, w, transferEncodingHeader, "chunked")

\* a header collection as the values its slices hold now
Deref(heap, h) == [k \in DOMAIN h |-> heap[h[k]]]

\* worker w writes bytes to connection c
ConnWrite(conns, c, w, bytes) ==
    [conns EXCEPT ![c].wire = @ \o bytes, ![c].users = @ \cup {w}]

\* Handler.ServeHTTP to the call: the CORS evaluator writes its headers
\* and delegates, the request is parsed and the command called
ConcServe(w) ==
    /\ pair.req[w].pc = "cors"
    /\ \E m \in ConcMethods, c \in CorsHeaderSets, r \in ConcResults,
          e \in ConcEncodings, sc \in BOOLEAN :
         LET s == ConcEvaluate([heap |-> pair.heap, h |-> pair.req[w].hdr],
                               w, c, 1)
         IN  pair' = [pair EXCEPT
                 !.heap = s.heap,
                 !.req[w] = [@ EXCEPT !.pc = "user", !.method = m, !.cors = c,
                                      !.res = r, !.enc = e, !.sc = sc,
                                      !.hdr = s.h]]
    /\ UNCHANGED handlerVars

\* set user's headers first
ConcUserHeaders(w) ==
    /\ pair.req[w].pc = "user"
    /\ pair' = [pair EXCEPT
            !.req[w] = [@ EXCEPT
                !.pc = "send",
                !.hdr = ConcApplyUserHeaders(pair.req[w].hdr, cfg.Headers)]]
    /\ UNCHANGED handlerVars

\* sendResponse to the method check: res.Reader() fails and http.Error
\* answers, or the headers are assembled
ConcSend(w) ==
    /\ pair.req[w].pc = "send"
    /\ LET q == pair.req[w]
           s == [heap |-> pair.heap, h |-> q.hdr]
       IN  \/ LET t == ConcSet(s, w, contentTypeHeader,
                               "text/plain; charset=utf-8")
              IN  pair' = [pair EXCEPT
                      !.heap = t.heap,
                      !.req[w] = [@ EXCEPT !.pc = "done", !.failed = TRUE,
                                           !.hdr = t.h]]
           \/ LET t == ConcAssemble(s, w, q.res, MimeOf(q.enc), q.sc)
              IN  pair' = [pair EXCEPT
                      !.heap = t.heap,
                      !.req[w] = [@ EXCEPT
                          !.pc = IF q.method = "HEAD" THEN "done" ELSE "hijack",
                          !.hdr = t.h]]
    /\ UNCHANGED handlerVars

\* writeResponse to the body: the hijack of the request's own connection,
\* the status line, the headers as their slices read now, the blank line
ConcHijack(w) ==
    /\ pair.req[w].pc = "hijack"
    /\ LET q == pair.req[w] IN
         \/ pair' = [pair EXCEPT !.req[w] = [@ EXCEPT !.pc = "done"]]
         \/ pair' = [pair EXCEPT
                !.req[w] = [@ EXCEPT !.pc = "read", !.conn = w],
                !.conns = ConnWrite([pair.conns EXCEPT ![w].state = "open"],
                              w, w,
                              StatusLine(StatusOf(q.res))
                              \o HeaderWrite(Deref(pair.heap, q.hdr)) \o CRLF)]
    /\ UNCHANGED handlerVars

\* one round of writeChunks
ConcChunk(w) ==
    /\ pair.req[w].pc = "read"
    /\ LET q == pair.req[w] IN
         \E n \in ConcSizes,
            e \in (IF q.left > 0 THEN {NilErr} ELSE {}) \cup {EOF, ConcReadError} :
            pair' = [pair EXCEPT
                !.req[w] = [@ EXCEPT
                    !.reads = Append(@, [data |-> BodyBytes(q.off, n), err |-> e]),
                    !.left = IF e = NilErr THEN @ - 1 ELSE @,
                    !.off = @ + n,
                    !.pc = LoopEnd(n, e).pc],
                !.conns = IF n > 0
                          THEN ConnWrite(pair.conns, q.conn, w,
                                         ChunkSizeLine(n) \o BodyBytes(q.off, n)
                                         \o CRLF)
                          ELSE pair.conns]
    /\ UNCHANGED handlerVars

\* writeResponse after the body: the terminal chunk, the trailer of a
\* failed read, the blank line, the flush and the deferred Close
ConcFinish(w) ==
    /\ pair.req[w].pc = "w_last"
    /\ LET q == pair.req[w]
           e == q.reads[Len(q.reads)].err
           c == ConnWrite(pair.conns, q.conn, w,
                          "0" \o CRLF
                          \o (IF e # EOF THEN TrailerLine(e) ELSE "") \o CRLF)
       IN  pair' = [pair EXCEPT
               !.req[w] = [@ EXCEPT !.pc = "done"],
               !.conns = [c EXCEPT ![q.conn].state = "closed"]]
    /\ UNCHANGED handlerVars

(* --------------------------- specifications --------------------------- *)

WriterNext ==
    \/ Hijack
    \/ WriteStatus
    \/ WriteHeaders
    \/ WriteEndOfHeaders
    \/ ChunkRead
    \/ ChunkLength
    \/ ChunkData
    \/ ChunkEnd
    \/ ChunkFlush
    \/ WriteLastChunk
    \/ WriteTrailer
    \/ WriteEnd
    \/ WriteFlush
    \/ WriteReturn

Next ==
    \/ CorsServe
    \/ ServeParse
    \/ ServeGetNode
    \/ ServeSetContext
    \/ ServeCall
    \/ SendMime
    \/ SendReader
    \/ SendHeaders
    \/ SendMethod
    \/ WriterNext

\* One request served by the handler.
Spec == Init /\ [][Next]_vars


\* writeResponse called by sendResponse for a GET request with the json
\* encoding: every status, a stream or a value as the output, and a body
\* source of up to MaxReads reads before it ends.
WriterInit ==
    /\ pc = "hijack"
    /\ method = "GET"
    /\ cfg = NewHandler([nil |-> TRUE, AllowedMethods |-> << >>,
                         AllowedOrigins |-> << >>, Headers |-> NoHeaders])
    /\ respStatus = 0
    /\ respBody = ""
    /\ opts = [enc |-> [found |-> TRUE, bad |-> FALSE, val |-> "json"],
               streamChans |-> FALSE]
    /\ res \in [err : ResErrors, output : {"reader", "value"}, length : {0}]
    /\ mime = FinalMime(res, MimeOf(opts.enc.val), opts.streamChans)
    /\ hdr = AssembleHeaders(NoHeaders, res, MimeOf(opts.enc.val),
                             opts.streamChans)
    /\ status = StatusOf(res)
    /\ src = [left |-> MaxReads, off |-> 0]
    /\ conn = "none"
    /\ bw = NewWriter
    /\ rd = NoRead
    /\ streamErr = NilErr
    /\ ret = NilErr
    /\ trace = << >>
    /\ pair = NoPair

\* One call of writeResponse.
WriterSpec == WriterInit /\ [][WriterNext]_vars

\* One call of writeResponse, for a stream without an error, on a worker
\* that keeps running: no call on the body source or the connection blocks
\* forever.
WriterLiveInit ==
    /\ WriterInit
    /\ res = [err |-> "none", output |-> "reader", length |-> 0]

WriterLiveSpec == WriterLiveInit /\ [][WriterNext]_vars /\ WF_vars(WriterNext)


\* Two requests served at once by a handler whose config has extra headers.
PairInit ==
    /\ cfg \in {NewHandler(c) : c \in {x \in ConfigInputs : ~x.nil}}
    /\ pair = [heap |-> ConfigHeap(cfg),
               req |-> [w \in Workers |-> NewRequest],
               conns |-> [w \in Workers |-> NewConn]]
    /\ pc = "done"
    /\ method = "GET"
    /\ hdr = NoHeaders
    /\ respStatus = 0
    /\ respBody = ""
    /\ opts = NoOpts
    /\ res = NoRes
    /\ mime = ""
    /\ status = 0
    /\ src = [left |-> 0, off |-> 0]
    /\ conn = "none"
    /\ bw = NewWriter
    /\ rd = NoRead
    /\ streamErr = NilErr
    /\ ret = NilErr
    /\ trace = << >>

PairNext ==
    \E w \in Workers :
        \/ ConcServe(w)
        \/ ConcUserHeaders(w)
        \/ ConcSend(w)
        \/ ConcHijack(w)
        \/ ConcChunk(w)
        \/ ConcFinish(w)

PairSpec == PairInit /\ [][PairNext]_vars


(* ====================================================================== *)
(*                              properties                                *)
(* ====================================================================== *)

(* What a run did, read off the trace. *)

Indices(op) == {i \in 1..Len(trace) : trace[i].op = op}

Reads == SelectSeq(trace, LAMBDA e : e.op = "Read")

Hijacked == Indices("Hijack") # {}

\* the payloads of the reads that answered bytes, in read order
RECURSIVE NonEmpty(_)
NonEmpty(es) ==
    IF es = << >> THEN << >>
    ELSE (IF Head(es).data # "" THEN <<Head(es).data>> ELSE << >>)
         \o NonEmpty(Tail(es))

ReadFailed == \E i \in Indices("Read") : trace[i].err.kind = "read"

PayloadWriteFailed == \E i \in Indices("Write") : trace[i].err # NilErr

\* the bytes handed to the writer by the calls before the i-th
RECURSIVE HandedBefore(_)
HandedBefore(i) ==
    IF i <= 1 THEN ""
    ELSE HandedBefore(i - 1)
         \o (IF trace[i - 1].op \in {"WriteString", "Header.Write", "Write"}
             THEN trace[i - 1].data ELSE "")

IsPrefix(a, b) == Len(a) <= Len(b) /\ SubSeq(b, 1, Len(a)) = a

(* A reader of chunked transfer coding, as a client decodes it: a size   *)
(* line of lowercase hexadecimal digits without a leading zero, CR LF,   *)
(* that many bytes, CR LF; the size line "0" ends the chunks.            *)

Occurrences(s, t) ==
    {i \in 1..(Len(s) - Len(t) + 1) : SubSeq(s, i, i + Len(t) - 1) = t}

\* where t first occurs in s, 0 when it does not
IndexOf(s, t) ==
    IF Occurrences(s, t) = {} THEN 0
    ELSE CHOOSE i \in Occurrences(s, t) : \A j \in Occurrences(s, t) : i <= j

HexDigitValues ==
    [c \in {"0", "1", "2", "3", "4", "5", "6", "7", "8", "9",
            "a", "b", "c", "d", "e", "f"} |->
        CASE c = "0" -> 0 [] c = "1" -> 1 [] c = "2" -> 2 [] c = "3" -> 3
          [] c = "4" -> 4 [] c = "5" -> 5 [] c = "6" -> 6 [] c = "7" -> 7
          [] c = "8" -> 8 [] c = "9" -> 9 [] c = "a" -> 10 [] c = "b" -> 11
          [] c = "c" -> 12 [] c = "d" -> 13 [] c = "e" -> 14 [] c = "f" -> 15]

IsSizeLine(t) ==
    /\ t # ""
    /\ \A i \in 1..Len(t) : SubSeq(t, i, i) \in DOMAIN HexDigitValues
    /\ (Len(t) > 1 => Head(t) # "0")

RECURSIVE SizeOf(_)
SizeOf(t) ==
    IF t = "" THEN 0
    ELSE 16 * SizeOf(SubSeq(t, 1, Len(t) - 1))
         + HexDigitValues[SubSeq(t, Len(t), Len(t))]

Undecodable == [ok |-> FALSE, chunks |-> << >>, rest |-> ""]

RECURSIVE Dechunk(_)
Dechunk(s) ==
    LET i == IndexOf(s, CRLF) IN
    IF i = 0 \/ ~IsSizeLine(SubSeq(s, 1, i - 1)) THEN Undecodable
    ELSE LET n == SizeOf(SubSeq(s, 1, i - 1))
             after == SubSeq(s, i + 2, Len(s))
         IN  IF n = 0 THEN [ok |-> TRUE, chunks |-> << >>, rest |-> after]
             ELSE IF Len(after) < n + 2 \/ SubSeq(after, n + 1, n + 2) # CRLF
             THEN Undecodable
             ELSE LET d == Dechunk(SubSeq(after, n + 3, Len(after))) IN
                  [ok |-> d.ok,
                   chunks |-> <<SubSeq(after, 1, n)>> \o d.chunks,
                   rest |-> d.rest]

\* the bytes the connection took after the blank line ending the headers
WireBody ==
    LET i == IndexOf(bw.wire, CRLF \o CRLF) IN
    IF i = 0 THEN "" ELSE SubSeq(bw.wire, i + 4, Len(bw.wire))

HasHeaderBlock == IndexOf(bw.wire, CRLF \o CRLF) # 0

NoBreak(t) == \A i \in 1..Len(t) : SubSeq(t, i, i) \notin {CR, LF}

\* one "X-Stream-Error: <text>" line of a single line of text, then the
\* blank line
IsTrailerThenBlank(rest) ==
    LET p == "X-Stream-Error: "
        i == IndexOf(rest, CRLF)
    IN  /\ IsPrefix(p, rest)
        /\ i > Len(p)
        /\ NoBreak(SubSeq(rest, Len(p) + 1, i - 1))
        /\ SubSeq(rest, i, Len(rest)) = CRLF \o CRLF

Finished == pc = "done" /\ conn = "closed"

(* C1: a body source that answers N non-empty reads and then ends        *)
(* cleanly, every write to the connection succeeding: after the header   *)
(* block the connection holds exactly those N payloads as chunk records, *)
(* each under its lowercase hexadecimal size, in read order, then one    *)
(* terminal "0" CR LF, no trailer, and the closing CR LF.                *)
C1_CleanBodyFraming ==
    (Finished /\ ~bw.err /\ ~ReadFailed) =>
        /\ HasHeaderBlock
        /\ Dechunk(WireBody).ok
        /\ Dechunk(WireBody).chunks = NonEmpty(Reads)
        /\ Dechunk(WireBody).rest = CRLF

C1_Witness ==
    /\ Finished /\ ~bw.err /\ ~ReadFailed
    /\ Len(NonEmpty(Reads)) = 3
    /\ Len(Reads) = 4
    /\ \E i \in 1..Len(Reads) : Len(Reads[i].data) = 17
    /\ \E i \in 1..Len(Reads) : Len(Reads[i].data) = 10

(* C2 as amended: when the K-th read fails with an error other than      *)
(* end-of-source and every write to the connection succeeds, the         *)
(* connection holds after the header block the chunk records of the K-1  *)
(* earlier reads, one more record for the bytes the failing read itself  *)
(* answered (if any), then "0" CR LF, exactly one X-Stream-Error trailer *)
(* line and the closing blank line; nothing is read or framed after the  *)
(* failing read.                                                         *)
C2_FailedReadFraming ==
    (Finished /\ ReadFailed /\ ~bw.err) =>
        /\ Reads[Len(Reads)].err.kind = "read"
        /\ \A i \in 1..(Len(Reads) - 1) : Reads[i].err = NilErr
        /\ HasHeaderBlock
        /\ Dechunk(WireBody).ok
        /\ Dechunk(WireBody).chunks = NonEmpty(Reads)
        /\ IsTrailerThenBlank(Dechunk(WireBody).rest)

(* C2 as claimed: the same of every run whose K-th read fails, whatever  *)
(* happens to the writes to the connection.                              *)
C2_AsClaimed ==
    (Finished /\ ReadFailed) =>
        /\ HasHeaderBlock
        /\ Dechunk(WireBody).ok
        /\ Dechunk(WireBody).chunks = NonEmpty(Reads)
        /\ IsTrailerThenBlank(Dechunk(WireBody).rest)

C2_Witness ==
    /\ Finished /\ ReadFailed /\ ~bw.err
    /\ Len(Reads) = 3
    /\ Reads[1].data # ""
    /\ Reads[3].data # ""
    /\ Reads[3].err.msg = "boom\r\ndata"


(* What the trailer lines written so far carry. *)

TrailerPrefix == "X-Stream-Error: "

IsTrailer(e) == e.op = "WriteString" /\ IsPrefix(TrailerPrefix, e.data)

\* the text of a trailer line: what stands after the name, the line's
\* CR LF taken off
TrailerText(e) == SubSeq(e.data, Len(TrailerPrefix) + 1, Len(e.data) - 2)

Breaks(m) == {i \in 1..Len(m) : SubSeq(m, i, i) \in {CR, LF}}

\* the message up to its first carriage return or line feed
FirstLine(m) ==
    IF Breaks(m) = {} THEN m
    ELSE SubSeq(m, 1, (CHOOSE i \in Breaks(m) : \A j \in Breaks(m) : i <= j) - 1)

(* C3: the text after "X-Stream-Error: " in a trailer line holds no      *)
(* carriage return and no line feed, and is the error message up to its  *)
(* first carriage return or line feed (all of it when it has neither).   *)
C3_TrailerSanitized ==
    \A i \in 1..Len(trace) :
        IsTrailer(trace[i]) =>
            /\ SubSeq(trace[i].data, Len(trace[i].data) - 1,
                      Len(trace[i].data)) = CRLF
            /\ NoBreak(TrailerText(trace[i]))
            /\ TrailerText(trace[i]) = FirstLine(streamErr.msg)

C3_Witness ==
    /\ streamErr.msg = "boom\r\ndata"
    /\ \E i \in 1..Len(trace) :
         IsTrailer(trace[i]) /\ TrailerText(trace[i]) = "boom"

(* C4 as amended: after a successful hijack writeResponse returns an     *)
(* error if and only if a read of the body source failed with an error   *)
(* other than end-of-source or the Write of a chunk payload returned an  *)
(* error, and the error it returns is that one; a clean end-of-source    *)
(* returns nil, also when a write to the connection failed in a call     *)
(* whose error the code ignores.                                         *)
C4_ReturnsReadOrWriteError ==
    Finished =>
        /\ ret # NilErr <=> (ReadFailed \/ PayloadWriteFailed)
        /\ PayloadWriteFailed => ret = WriteError
        /\ (ReadFailed /\ ~PayloadWriteFailed) => ret = Reads[Len(Reads)].err

(* C4 as claimed: writeResponse returns an error if and only if a read   *)
(* of the body source failed with an error other than end-of-source,     *)
(* runs where a write to the connection fails included.                  *)
C4_AsClaimed ==
    Finished => (ret # NilErr <=> ReadFailed)

C4_Witness ==
    /\ Finished
    /\ PayloadWriteFailed /\ ~ReadFailed
    /\ ret = WriteError

C6_ClosedOnceAndLast ==
    /\ Cardinality(Indices("Close")) <= 1
    /\ Indices("Close") # {} => trace[Len(trace)].op = "Close"
    /\ conn = "closed" <=> Indices("Close") # {}
    /\ conn = "open" <=> (Hijacked /\ Indices("Close") = {})
    /\ (pc = "done" /\ Hijacked) => Cardinality(Indices("Close")) = 1

C6_Witness ==
    /\ pc = "done"
    /\ Cardinality(Indices("Close")) = 1
    /\ PayloadWriteFailed


(* The head of a hijacked response, as a client expects it. *)

ExpectedStatusLine(code) ==
    CASE code = 200 -> "HTTP/1.1 200 OK\r\n"
      [] code = 400 -> "HTTP/1.1 400 Bad Request\r\n"
      [] code = 500 -> "HTTP/1.1 500 Internal Server Error\r\n"
      [] OTHER -> ""

\* one line per value of every name of the header collection
HeaderLineSet(h) ==
    UNION { {k \o ": " \o h[k][j] \o CRLF : j \in 1..Len(h[k])} :
            k \in DOMAIN h }

RECURSIVE TotalLen(_)
TotalLen(S) ==
    IF S = {} THEN 0
    ELSE LET l == CHOOSE x \in S : TRUE IN Len(l) + TotalLen(S \ {l})

\* data is made of exactly the header lines of h, each on a line of its own
IsHeaderBlock(data, h) ==
    /\ Len(data) = TotalLen(HeaderLineSet(h))
    /\ \A l \in HeaderLineSet(h) :
         \E i \in Occurrences(data, l) :
            i = 1 \/ SubSeq(data, i - 2, i - 1) = CRLF

(* C7: in a hijacked response the status line "HTTP/1.1 <code> <reason>" *)
(* CR LF is the first thing written, then every assembled header line,   *)
(* then the blank line, and all three before the first read of the body  *)
(* source and the first body byte.                                       *)
C7_HeadBeforeBody ==
    Hijacked =>
        /\ trace[1].op = "Hijack"
        /\ Len(trace) >= 2 =>
             /\ trace[2].op = "WriteString"
             /\ trace[2].data = ExpectedStatusLine(status)
        /\ Len(trace) >= 3 =>
             /\ trace[3].op = "Header.Write"
             /\ IsHeaderBlock(trace[3].data, hdr)
        /\ Len(trace) >= 4 =>
             /\ trace[4].op = "WriteString"
             /\ trace[4].data = CRLF
        /\ \A i \in Indices("Read") \cup Indices("Write") : i >= 5
        /\ IsPrefix(bw.wire, HandedBefore(Len(trace) + 1))

C7_Witness ==
    /\ Hijacked
    /\ status = 400
    /\ Cardinality(DOMAIN hdr) = 2
    /\ Cardinality(Indices("Read")) = 2
    /\ Cardinality(Indices("Write")) = 1
    /\ IsPrefix(ExpectedStatusLine(400), bw.wire)

(* C9: when the transport cannot be hijacked, or the hijack fails,       *)
(* writeResponse returns an error and has written nothing: no status     *)
(* line, no header, no chunk, no terminal chunk, and it has not read the *)
(* body source.                                                          *)
C9_NoHijackNothingWritten ==
    /\ (pc = "done" /\ ~Hijacked) => ret # NilErr
    /\ ~Hijacked =>
         /\ trace = << >>
         /\ conn = "none"
         /\ bw = NewWriter
         /\ src.off = 0 /\ src.left = MaxReads
         /\ rd = NoRead
         /\ respStatus = 0 /\ respBody = ""

C9_Witness ==
    /\ pc = "done"
    /\ ret = HijackUnsupported
    /\ trace = << >>
    /\ bw.wire = ""

(* The header collection once sendResponse has assembled it. *)

Assembled == transferEncodingHeader \in DOMAIN hdr

IsContentType(k) == k = "Content-Type" \/ k = "content-type"

(* C8 as amended: a HEAD request never has its connection hijacked and   *)
(* never reaches the chunked body writer, on any path; when no error     *)
(* precedes the method check nothing is handed to the ResponseWriter as  *)
(* a body either, and only the headers are set; on the error paths       *)
(* (parse error, node or context error, missing encoding, reader error)  *)
(* the handler hands the error text to the ResponseWriter as it does for *)
(* any other method.                                                     *)
C8_HeadNeverHijacked ==
    method = "HEAD" =>
        /\ conn = "none"
        /\ trace = << >>
        /\ bw = NewWriter
        /\ src.off = 0
        /\ pc \notin {"hijack", "w_status", "w_headers", "w_eoh", "read",
                      "chunk_len", "chunk_data", "chunk_crlf", "chunk_flush",
                      "w_last", "w_trailer", "w_end", "w_flush", "close"}
        /\ respBody # "" =>
             respStatus \in {StatusBadRequest, StatusNotFound,
                             StatusInternalServerError}
        /\ Assembled => (respStatus = 0 /\ respBody = "")

(* C8 as claimed: for a HEAD request no path hijacks the connection or   *)
(* writes a body byte, the error paths included.                         *)
C8_AsClaimed ==
    method = "HEAD" => (conn = "none" /\ trace = << >> /\ respBody = "")

C8_Witness ==
    /\ method = "HEAD"
    /\ pc = "done"
    /\ Assembled
    /\ respBody = ""
    /\ conn = "none"

(* C10 as amended: for a raw byte stream the assembler sets no           *)
(* Content-Type, whatever the encoding option: the final header set      *)
(* holds a Content-Type only when the operator's extra headers name one, *)
(* and then with the operator's value.                                   *)
C10_StreamContentTypeOnlyFromOperator ==
    (Assembled /\ IsReader(res)) =>
        \A k \in DOMAIN hdr :
            IsContentType(k) => (k \in DOMAIN cfg.Headers /\ hdr[k] = cfg.Headers[k])

(* C10 as claimed: for a raw byte stream the final header set holds no   *)
(* Content-Type, whatever the operator's extra headers are.              *)
C10_AsClaimed ==
    (Assembled /\ IsReader(res)) => \A k \in DOMAIN hdr : ~IsContentType(k)

C10_Witness ==
    /\ Assembled /\ IsReader(res)
    /\ opts.enc.val = "json"
    /\ conn = "closed"
    /\ streamHeader \in DOMAIN hdr
    /\ \A k \in DOMAIN hdr : ~IsContentType(k)


(* C11: when the output is a channel of values and the stream-channels   *)
(* option is true, the header set the assembler leaves carries           *)
(* Content-Type: application/json as the one value of that name,         *)
(* whatever the encoding option names (json, xml, text, or an encoding   *)
(* the table does not know) and whatever Content-Type the operator's     *)
(* extra headers supplied; the header block written to a hijacked        *)
(* connection holds that line.                                           *)
C11_StreamedChannelIsJson ==
    (Assembled /\ IsChan(res) /\ opts.streamChans) =>
        /\ "Content-Type" \in DOMAIN hdr
        /\ hdr["Content-Type"] = <<"application/json">>
        /\ \A i \in Indices("Header.Write") :
             \E j \in Occurrences(trace[i].data,
                                  "Content-Type: application/json\r\n") :
                j = 1 \/ SubSeq(trace[i].data, j - 2, j - 1) = CRLF

C11_Witness ==
    /\ Assembled /\ IsChan(res) /\ opts.streamChans
    /\ opts.enc.val = "protobuf"
    /\ "Content-Type" \in DOMAIN cfg.Headers
    /\ cfg.Headers["Content-Type"] = <<"text/html">>
    /\ hdr["Content-Type"] = <<"application/json">>
    /\ Indices("Header.Write") # {}

(* The three names the handler reserves for the CORS evaluator. *)

ReservedNames ==
    {"Access-Control-Allow-Origin", "Access-Control-Allow-Methods",
     "Access-Control-Allow-Credentials"}

(* C12: no step of the pipeline behind the CORS evaluator, the copying   *)
(* of the operator's extra headers included, adds, removes or changes    *)
(* an entry of the outgoing header collection under one of the three     *)
(* reserved names: what the evaluator set under them stays as it was,    *)
(* and an operator entry of such a name is never copied.                 *)
C12_ReservedNamesUntouched ==
    [][pc # "cors" =>
         \A k \in ReservedNames :
            /\ k \in DOMAIN hdr' <=> k \in DOMAIN hdr
            /\ k \in DOMAIN hdr => hdr'[k] = hdr[k]]_vars

C12_Witness ==
    /\ pc = "mime"
    /\ ReservedNames \subseteq DOMAIN cfg.Headers
    /\ cfg.Headers["Access-Control-Allow-Origin"] = <<"*">>
    /\ {"Access-Control-Allow-Origin", "Vary"} \subseteq DOMAIN hdr
    /\ hdr["Access-Control-Allow-Origin"] = <<"http://localhost">>
    /\ "Access-Control-Allow-Methods" \notin DOMAIN hdr
    /\ hdr["Vary"] = cfg.Headers["Vary"]

(* What the CORS evaluator may have written when it delegates. *)

CorsNames == UNION {DOMAIN h : h \in CorsHeaderSets}

\* a step keeps every value of the entry named k
KeepsEntry(k) ==
    /\ k \in DOMAIN hdr'
    /\ \A j \in 1..Len(hdr[k]) :
         \E i \in 1..Len(hdr'[k]) : hdr'[k][i] = hdr[k][j]

(* C13: header-setting by the pipeline is additive against what the      *)
(* CORS evaluator wrote.  When the operator's extra headers are applied  *)
(* the collection holds exactly the evaluator's entries; every value of  *)
(* each of them is still in the collection after that step, and every    *)
(* value under an evaluator name is still there after the assembler's    *)
(* step: no entry is replaced or reset.                                  *)
C13_AsClaimed ==
    [][(pc = "call" \/ pc = "headers") =>
         \A k \in DOMAIN hdr \cap CorsNames : KeepsEntry(k)]_vars

\* the evaluator wrote Vary: Origin, and the operator's Vary stands in
\* its place when the assembler is done
C13_Witness ==
    /\ Assembled
    /\ "Vary" \in DOMAIN cfg.Headers
    /\ "Access-Control-Allow-Origin" \in DOMAIN hdr
    /\ hdr["Access-Control-Allow-Origin"] = <<"http://localhost">>
    /\ hdr["Vary"] = <<"Accept-Encoding">>

(* The status line a client expects for a Result. *)

ExpectedLineOf(r) ==
    CASE r.err = "none" -> "HTTP/1.1 200 OK\r\n"
      [] r.err = "client" -> "HTTP/1.1 400 Bad Request\r\n"
      [] OTHER -> "HTTP/1.1 500 Internal Server Error\r\n"

TerminalChunks ==
    {i \in Indices("WriteString") : trace[i].data = "0\r\n"}

(* C14: the status line written on the hijacked connection carries 200   *)
(* for a Result without an error, 400 for a client error and 500 for any *)
(* other error.  An error of the Result sends nothing down the normal    *)
(* ResponseWriter path: deriving the status writes nothing, and a        *)
(* hijacked response, whatever its status, has no status or body written *)
(* through the ResponseWriter and runs through status line, headers,     *)
(* chunks and the terminal chunk.                                        *)
C14_StatusFromResultError ==
    /\ Len(trace) >= 2 =>
         /\ trace[2].op = "WriteString"
         /\ trace[2].data = ExpectedLineOf(res)
    /\ pc = "reader" => (respStatus = 0 /\ respBody = "")
    /\ Hijacked => (respStatus = 0 /\ respBody = "")
    /\ (Hijacked /\ pc = "done") =>
         /\ trace[3].op = "Header.Write"
         /\ Cardinality(TerminalChunks) = 1
         /\ \A i \in Indices("Read") \cup Indices("Write") :
              \A j \in TerminalChunks : 3 < i /\ i < j

C14_Witness ==
    /\ Hijacked /\ pc = "done"
    /\ res.err = "client"
    /\ trace[2].data = "HTTP/1.1 400 Bad Request\r\n"
    /\ Indices("Write") # {}
    /\ IsPrefix("HTTP/1.1 400 Bad Request\r\n", bw.wire)
    /\ respStatus = 0

(* The status lines and trailer lines handed to the hijacked writer. *)

StatusLines ==
    {i \in Indices("WriteString") : IsPrefix("HTTP/1.1 ", trace[i].data)}

TrailerLines == {i \in 1..Len(trace) : IsTrailer(trace[i])}

NormalPathWritten == respStatus # 0 \/ respBody # ""

(* C15: within one request the normal ResponseWriter path and the        *)
(* hijacked path exclude each other.  A status and body written through  *)
(* the ResponseWriter by the pipeline are those of a failure found       *)
(* before the hijack, end the request and are never followed by a        *)
(* hijack or a read of the body source; on a hijacked connection there   *)
(* is one status line, the first thing written, nothing is written       *)
(* through the ResponseWriter, and a read of the body source that fails  *)
(* later shows as one X-Stream-Error trailer line after the terminal     *)
(* chunk and nowhere else (the line carries the read error's text unless *)
(* the write of the bytes that read answered failed as well).            *)
C15_PathsExclusive ==
    /\ ~(NormalPathWritten /\ Hijacked)
    /\ NormalPathWritten =>
         /\ pc = "done"
         /\ conn = "none" /\ trace = << >> /\ bw = NewWriter
         /\ respStatus \in {StatusBadRequest, StatusNotFound,
                            StatusInternalServerError}
            \/ (method = "OPTIONS" /\ respStatus = StatusOK /\ respBody = "")
    /\ Hijacked =>
         /\ StatusLines \subseteq {2}
         /\ Len(trace) >= 2 => StatusLines = {2}
         /\ Cardinality(TrailerLines) <= 1
    /\ (Hijacked /\ pc = "done" /\ ReadFailed) =>
         /\ Cardinality(TrailerLines) = 1
         /\ \A i \in TrailerLines :
              /\ i - 1 \in TerminalChunks
              /\ ~PayloadWriteFailed =>
                   TrailerText(trace[i]) = FirstLine(Reads[Len(Reads)].err.msg)
              /\ trace[i + 1].data = CRLF

C15_Witness ==
    /\ Hijacked /\ pc = "done" /\ ReadFailed
    /\ status = StatusOK
    /\ StatusLines = {2}
    /\ Cardinality(TrailerLines) = 1
    /\ ~NormalPathWritten

(* Reads that answer no byte and no error. *)

EmptyReads ==
    {i \in Indices("Read") : trace[i].data = "" /\ trace[i].err = NilErr}

AfterLoop == pc \in {"w_last", "w_trailer", "w_end", "w_flush", "close", "done"}

\* the byte counts and the errors of the reads so far
ReadSizesSoFar == [i \in 1..Len(Reads) |-> Len(Reads[i].data)]
ReadErrorsSoFar == [i \in 1..Len(Reads) |-> Reads[i].err]

TenZeroFiveThenEnd ==
    /\ ReadSizesSoFar = <<10, 0, 5, 0>>
    /\ ReadErrorsSoFar = <<NilErr, NilErr, NilErr, EOF>>

(* C16: a read that answers 0 bytes and no error hands nothing to the    *)
(* writer and does not end the chunk loop: the next call is the next     *)
(* read.  The loop has ended only after a read that answered             *)
(* end-of-source or an error, or after a failed write of a payload.      *)
(* Reads of 10, 0 and 5 bytes followed by end-of-source put on the       *)
(* connection exactly two chunk records, under the size lines "a" and    *)
(* "5", and then the terminal "0" CR LF CR LF.                           *)
C16_EmptyReadIsNoOp ==
    /\ \A i \in EmptyReads :
         /\ Len(trace) > i => trace[i + 1].op = "Read"
         /\ Len(trace) = i => pc = "read"
    /\ (Hijacked /\ AfterLoop) =>
         \/ (Reads # << >> /\ Reads[Len(Reads)].err # NilErr)
         \/ PayloadWriteFailed
    /\ (Finished /\ ~bw.err /\ TenZeroFiveThenEnd) =>
         WireBody = "a\r\n" \o Reads[1].data \o "\r\n"
                    \o "5\r\n" \o Reads[3].data \o "\r\n"
                    \o "0\r\n\r\n"

C16_Witness ==
    /\ Finished /\ ~bw.err /\ TenZeroFiveThenEnd
    /\ Len(WireBody) = 3 + 10 + 2 + 3 + 5 + 2 + 5

(* C17: every chunk record is flushed before the body source is read    *)
(* again.  A payload written without error is followed by its CR LF and  *)
(* a Flush; a read other than the first comes right after a Flush or     *)
(* after a read that answered nothing; when a read is issued after a     *)
(* chunk has been written, the writer holds no byte and the connection   *)
(* has taken every byte handed so far; and at any moment only the newest *)
(* chunk record can have bytes that the connection has not taken (all    *)
(* this while the connection takes what it is given).                    *)
C17_FlushPerChunk ==
    /\ \A i \in Indices("Write") :
         trace[i].err = NilErr =>
            /\ Len(trace) >= i + 1 =>
                 (trace[i + 1].op = "WriteString" /\ trace[i + 1].data = CRLF)
            /\ Len(trace) >= i + 2 => trace[i + 2].op = "Flush"
    /\ \A i \in Indices("Read") :
         i > 5 => (trace[i - 1].op = "Flush" \/ i - 1 \in EmptyReads)
    /\ (pc = "read" /\ Indices("Write") # {} /\ ~bw.err) =>
         /\ bw.buf = ""
         /\ bw.wire = HandedBefore(Len(trace) + 1)
    /\ ~bw.err =>
         \A i \in Indices("Write") :
            (\E j \in Indices("Write") : j > i) =>
                IsPrefix(HandedBefore(i + 1) \o CRLF, bw.wire)

C17_Witness ==
    /\ pc = "read"
    /\ ~bw.err
    /\ Cardinality(Indices("Write")) = 2
    /\ Cardinality(Indices("Flush")) = 2
    /\ bw.buf = ""
    /\ Len(bw.wire) > WriterSize

(* The sizes the data chunk records declare, read off the calls. *)

\* the size lines the chunk loop wrote: the calls right before a payload
DataSizeLines == {i - 1 : i \in Indices("Write")}

(* C19: in every state of a hijacked response each data chunk record      *)
(* declares, in hexadecimal, the length of its payload, a number from 1  *)
(* to 32768; the chunk loop never writes the size line "0", so the only  *)
(* "0" CR LF is the one terminal marker written after the loop, and the  *)
(* bytes the connection has taken decode to records of those sizes.      *)
C19_ChunkSizes ==
    /\ \A i \in Indices("Write") :
         /\ trace[i - 1].op = "WriteString"
         /\ IsSizeLine(SubSeq(trace[i - 1].data, 1, Len(trace[i - 1].data) - 2))
         /\ SubSeq(trace[i - 1].data, Len(trace[i - 1].data) - 1,
                   Len(trace[i - 1].data)) = CRLF
         /\ SizeOf(SubSeq(trace[i - 1].data, 1, Len(trace[i - 1].data) - 2))
              = Len(trace[i].data)
         /\ 1 <= Len(trace[i].data) /\ Len(trace[i].data) <= 32768
         /\ trace[i - 2].op = "Read" /\ trace[i - 2].data = trace[i].data
    /\ TerminalChunks \cap DataSizeLines = {}
    /\ Cardinality(TerminalChunks) <= 1
    /\ AfterLoop \/ TerminalChunks = {}
    /\ (Hijacked /\ AfterLoop /\ pc # "w_last") => Cardinality(TerminalChunks) = 1
    /\ (Finished /\ ~bw.err) =>
         /\ Dechunk(WireBody).ok
         /\ \A j \in 1..Len(Dechunk(WireBody).chunks) :
              Len(Dechunk(WireBody).chunks[j]) \in 1..32768

C19_Witness ==
    /\ Finished /\ ~bw.err
    /\ Cardinality(Indices("Write")) = 3
    /\ \E i \in Indices("Write") : trace[i - 1].data = "11\r\n"
    /\ \E i \in Indices("Write") : trace[i - 1].data = "a\r\n"
    /\ EmptyReads # {}

(* What is left for a run to do. *)

AllReadsNil == \A i \in Indices("Read") : trace[i].err = NilErr

FinalCalls ==
    /\ Len(trace) >= 4
    /\ trace[Len(trace)].op = "Close"
    /\ trace[Len(trace) - 1].op = "Flush"
    /\ trace[Len(trace) - 2].op = "WriteString"
    /\ trace[Len(trace) - 2].data = CRLF
    /\ Cardinality(TerminalChunks) = 1

AloneHeaders(q) ==
    LET h1 == ApplyUserHeaders(q.cors, cfg.Headers) IN
    CASE q.pc = "cors" -> NoHeaders
      [] q.pc = "user" -> q.cors
      [] q.pc = "send" -> h1
      [] OTHER -> IF q.failed
                  THEN HSet(h1, contentTypeHeader, "text/plain; charset=utf-8")
                  ELSE AssembleHeaders(h1, q.res, MimeOf(q.enc), q.sc)

RECURSIVE ChunkRecords(_)
ChunkRecords(rs) ==
    IF rs = << >> THEN ""
    ELSE (IF Head(rs).data # ""
          THEN ChunkSizeLine(Len(Head(rs).data)) \o Head(rs).data \o CRLF
          ELSE "")
         \o ChunkRecords(Tail(rs))

AloneWire(q, closed) ==
    IF q.conn = "none" THEN ""
    ELSE StatusLine(StatusOf(q.res)) \o HeaderWrite(AloneHeaders(q)) \o CRLF
         \o ChunkRecords(q.reads)
         \o (IF closed
             THEN "0\r\n"
                  \o (IF q.reads[Len(q.reads)].err.kind = "read"
                      THEN "X-Stream-Error: "
                           \o FirstLine(q.reads[Len(q.reads)].err.msg) \o CRLF
                      ELSE "")
                  \o CRLF
             ELSE "")

(* C18: two requests served at once by the same handler do not touch     *)
(* each other.  In every state of every interleaving of their steps the  *)
(* slices of the shared config hold what the operator configured; each   *)
(* request's header collection holds the values, and its connection the  *)
(* bytes, that the request produces when served alone; and a connection  *)
(* is opened, written and closed by the request whose ResponseWriter it  *)
(* was hijacked from and by no other.                                    *)
C18_NoInterference ==
    /\ \A k \in DOMAIN cfg.Headers : pair.heap[<<"cfg", k>>] = cfg.Headers[k]
    /\ \A w \in Workers :
         /\ Deref(pair.heap, pair.req[w].hdr) = AloneHeaders(pair.req[w])
         /\ pair.conns[w].wire
              = AloneWire(pair.req[w], pair.conns[w].state = "closed")
         /\ pair.conns[w].users \subseteq {w}
         /\ pair.req[w].conn \in {"none", w}
         /\ pair.conns[w].state # "none" <=> pair.req[w].conn = w
         /\ pair.conns[w].state = "closed" <=>
              (pair.req[w].conn = w /\ pair.req[w].pc = "done")

\* both connections are open at once; one request still holds the
\* operator's Content-Type slice, the other has set one of its own
C18_Witness ==
    /\ pair.conns["r1"].state = "open" /\ pair.conns["r2"].state = "open"
    /\ "Content-Type" \in DOMAIN cfg.Headers
    /\ pair.req["r1"].hdr["Content-Type"] = <<"cfg", "Content-Type">>
    /\ pair.req["r2"].hdr["Content-Type"] = <<"r2", "Content-Type">>
    /\ pair.req["r1"].reads # << >> /\ pair.req["r2"].reads # << >>
    /\ pair.conns["r1"].wire # pair.conns["r2"].wire

=============================================================================
